---- MODULE Spec2Model ----
(***************************************************************************)
(* Model of the committee node (worker/common/committee Node: Start, Stop, *)
(* GetStatus, worker and its block handlers) and of the simple scheduler   *)
(* facade (runtime/scheduling/simple).                                     *)
(***************************************************************************)
EXTENDS Integers, Sequences, FiniteSets, TLC

\* ------------------------------------------------------------------ bounds
\* Number of registered hooks (AddHooks calls made before Start).
NumHooks == 2
\* Number of callers of Stop.
NumStoppers == 2
\* Number of runtime blocks the roothash block stream delivers.
MaxBlocks == 2
\* Consensus heights that events carry.
MaxHeight == 2
\* Epochs the beacon lookup may answer.
MaxEpoch == 2
\* Descriptor versions the registry lookup may answer.
MaxDesc == 1

\* Distinct transaction payloads, the largest declared weight, and the largest
\* MaxPoolSize a facade is constructed with.
NumTxs == 3
MaxWeight == 2
MaxPoolSizeChoice == 2

Hooks == 1..NumHooks
Stoppers == 1..NumStoppers
Heights == 1..MaxHeight
Epochs == 1..MaxEpoch
DescVersions == 1..MaxDesc

\* ------------------------------------------------------------- data model
\* block.HeaderType values; "Invalid" stands for any value outside the four.
HeaderTypes == {"Normal", "RoundFailed", "EpochTransition", "Suspended"}
InvalidType == "Invalid"
AllTypes == HeaderTypes \cup {InvalidType}

\* A nil *block.Block.
NilBlock == [Round |-> -1, HeaderType |-> "nil"]
\* A nil *consensus.LightBlock and the light block the backend holds at height h.
NilLightBlock == [Height |-> 0]
LightBlockAt(h) == [Height |-> h]
\* A nil *registry.Runtime; version 0 is the descriptor Runtime.ActiveDescriptor returns.
NilDescriptor == [Version |-> -1]

\* The worker's local rt before ActiveDescriptor has returned and after its
\* last use.
NilRuntime == [KeyManager |-> "unset"]

\* No annotated block in hand.
NoEvent == [Round |-> -1, HeaderType |-> "none", Height |-> 0]

VARIABLES
    \* Node.Start / worker position, the startup step that failed
    startState, pc, startupError, defers, released,
    \* why the worker returned; the descriptor ActiveDescriptor handed to the
    \* worker (its local rt), held until its last use
    exitCause, rt,
    \* stopCh, stopOnce, quitCh, initCh, ctx
    stopOnce, stopPc, stopCloses, poolStops, quitCloses, initCloses, ctxDone,
    \* environment signals; activeDescriptor is what the pending
    \* Runtime.ActiveDescriptor call has to return
    synced, activeDescriptor, kmReady, hooksReady,
    \* worker locals
    initialized, hookIdx, cur, firstBlockReceived, delivered,
    \* CrossNode and the fields it guards
    lock, CurrentBlock, CurrentBlockHeight, CurrentConsensusBlock,
    CurrentDescriptor, CurrentEpoch, Height,
    \* observations: group transitions, hook epoch callbacks, per-block steps,
    \* the protected tuple before the handler in progress, GetStatus position
    transitions, hookEpochCalls, blockLog, pre, outcome, readerPc,
    \* scheduler facade: its maxTxPoolSize field, the pool behind it (queue and
    \* configuration) and the last facade call with what it returned
    maxTxPoolSize, txQueue, poolCfg, lastCall

nodeVars == <<startState, pc, startupError, defers, released, exitCause, rt,
              stopOnce, stopPc, stopCloses, poolStops, quitCloses, initCloses, ctxDone,
              synced, activeDescriptor, kmReady, hooksReady,
              initialized, hookIdx, cur, firstBlockReceived, delivered,
              lock, CurrentBlock, CurrentBlockHeight, CurrentConsensusBlock,
              CurrentDescriptor, CurrentEpoch, Height,
              transitions, hookEpochCalls, blockLog, pre, outcome, readerPc>>

schedVars == <<maxTxPoolSize, txQueue, poolCfg, lastCall>>

vars == <<nodeVars, schedVars>>

\* The five fields a block handler updates.
Protected == [block |-> CurrentBlock, height |-> CurrentBlockHeight,
              consensus |-> CurrentConsensusBlock, descriptor |-> CurrentDescriptor,
              epoch |-> CurrentEpoch]

ProtectedVars == <<CurrentBlock, CurrentBlockHeight, CurrentConsensusBlock,
                   CurrentDescriptor, CurrentEpoch>>

startVars == <<startState, startupError>>
stopVars == <<stopOnce, stopPc, stopCloses, poolStops>>
envVars == <<synced, activeDescriptor, kmReady, hooksReady>>
obsVars == <<transitions, hookEpochCalls, blockLog, pre, outcome>>
readerVars == <<readerPc>>
localVars == <<initialized, hookIdx, cur, firstBlockReceived, delivered>>

\* ------------------------------------------------------------------- Init
\* NewNode: channels open, protected fields zero, no worker yet.
InitNode ==
    /\ startState = "new"
    /\ pc = "idle"
    /\ startupError = "none"
    /\ defers = <<>>
    /\ released = <<>>
    /\ exitCause = "none"
    /\ rt = NilRuntime
    /\ stopOnce = "fresh"
    /\ stopPc = [s \in Stoppers |-> "idle"]
    /\ stopCloses = 0
    /\ poolStops = 0
    /\ quitCloses = 0
    /\ initCloses = 0
    /\ ctxDone = FALSE
    /\ synced = FALSE
    /\ activeDescriptor = "pending"
    /\ kmReady = FALSE
    /\ hooksReady = {}
    /\ initialized = FALSE
    /\ hookIdx = 0
    /\ cur = NoEvent
    /\ firstBlockReceived = FALSE
    /\ delivered = 0
    /\ lock = "free"
    /\ CurrentBlock = NilBlock
    /\ CurrentBlockHeight = 0
    /\ CurrentConsensusBlock = NilLightBlock
    /\ CurrentDescriptor = NilDescriptor
    /\ CurrentEpoch = 0
    /\ Height = 0
    /\ transitions = <<>>
    /\ hookEpochCalls = [h \in Hooks |-> 0]
    /\ blockLog = <<>>
    /\ pre = Protected
    /\ outcome = "none"
    /\ readerPc = "idle"

\* No scheduler constructed yet.
NoCfg == [MaxPoolSize |-> 0, WeightLimit |-> 0]
NoCall == [op |-> "none", tx |-> [n |-> 0, weight |-> 0], result |-> "nil",
           before |-> <<>>, after |-> <<>>, cfg |-> NoCfg,
           ids |-> {}, force |-> FALSE, batch |-> <<>>]

InitSched ==
    /\ maxTxPoolSize = 0
    /\ txQueue = <<>>
    /\ poolCfg = NoCfg
    /\ lastCall = NoCall

Init == InitNode /\ InitSched

\* ------------------------------------------------------------- Node.Start
\* Start: Group.Start, TxPool.Start, then `go n.worker()`; the worker's two
\* deferred calls (close(quitCh), cancelCtx) are registered as it begins.
Start(res) ==
    /\ startState = "new"
    /\ IF res = "ok"
       THEN /\ startState' = "started"
            /\ pc' = "waitSync"
            /\ defers' = <<"closeQuit", "cancelCtx">>
       ELSE /\ startState' = res
            /\ UNCHANGED <<pc, defers>>
    /\ UNCHANGED <<startupError, released, rt, exitCause, stopVars, quitCloses, initCloses, ctxDone,
                   envVars, localVars, lock, ProtectedVars, Height, obsVars, readerVars, schedVars>>

\* -------------------------------------------------------------- Node.Stop
\* stopOnce.Do(f): the first caller runs f, a caller arriving while f runs
\* waits for it, a caller arriving after it returns at once.
\* First statement of f: close(n.stopCh).
StopCallUnguarded(s) ==
    /\ stopPc[s] = "idle"
    /\ stopOnce' = "running"
    /\ stopCloses' = stopCloses + 1
    /\ stopPc' = [stopPc EXCEPT ![s] = "inOnce"]
    /\ UNCHANGED poolStops

StopCall(s) ==
    /\ stopPc[s] = "idle"
    /\ stopOnce # "running"
    /\ IF stopOnce = "fresh"
       THEN /\ stopOnce' = "running"
            /\ stopCloses' = stopCloses + 1
            /\ stopPc' = [stopPc EXCEPT ![s] = "inOnce"]
       ELSE /\ stopPc' = [stopPc EXCEPT ![s] = "returned"]
            /\ UNCHANGED <<stopOnce, stopCloses>>
    /\ UNCHANGED poolStops

\* Second statement of f: n.TxPool.Stop(); then Do returns.
StopPool(s) ==
    /\ stopPc[s] = "inOnce"
    /\ poolStops' = poolStops + 1
    /\ stopOnce' = "done"
    /\ stopPc' = [stopPc EXCEPT ![s] = "returned"]
    /\ UNCHANGED stopCloses

Stop(s) ==
    /\ StopCall(s) \/ StopPool(s)
    /\ UNCHANGED <<startVars, rt, exitCause, pc, defers, released, quitCloses, initCloses, ctxDone,
                   envVars, localVars, lock, ProtectedVars, Height, obsVars, readerVars, schedVars>>

\* A receive from stopCh is ready once the channel is closed.
StopRequested == stopCloses > 0

\* ------------------------------------------------------------ environment
\* The signals are raised while the worker can still wait for them; raised
\* earlier they would be seen at the same select.
\* Consensus.Synced() closes.
ConsensusSynced ==
    /\ pc = "waitSync"
    /\ ~synced
    /\ synced' = TRUE
    /\ UNCHANGED <<startVars, rt, exitCause, pc, defers, released, stopVars, quitCloses, initCloses,
                   ctxDone, activeDescriptor, kmReady, hooksReady, localVars, lock, ProtectedVars, Height,
                   obsVars, readerVars, schedVars>>

\* KeyManagerClient.Initialized() closes.
KeyManagerReady ==
    /\ pc = "waitKM"
    /\ ~kmReady
    /\ kmReady' = TRUE
    /\ UNCHANGED <<startVars, rt, exitCause, pc, defers, released, stopVars, quitCloses, initCloses,
                   ctxDone, synced, activeDescriptor, hooksReady, localVars, lock, ProtectedVars, Height,
                   obsVars, readerVars, schedVars>>

\* hooks.Initialized() of hook h closes.
HookReady(h) ==
    /\ pc \in {"loop", "waitHooks"}
    /\ h \notin hooksReady
    /\ hooksReady' = hooksReady \cup {h}
    /\ UNCHANGED <<startVars, rt, exitCause, pc, defers, released, stopVars, quitCloses, initCloses,
                   ctxDone, synced, activeDescriptor, kmReady, localVars, lock, ProtectedVars, Height,
                   obsVars, readerVars, schedVars>>

\* Runtime.ActiveDescriptor(n.ctx) has its answer: the descriptor, once the
\* runtime is registered, or an error.
DescriptorResolved(res) ==
    /\ pc = "waitDescriptor"
    /\ activeDescriptor = "pending"
    /\ activeDescriptor' = res
    /\ UNCHANGED <<startVars, rt, exitCause, pc, defers, released, stopVars, quitCloses,
                   initCloses, ctxDone, synced, kmReady, hooksReady, localVars, lock,
                   ProtectedVars, Height, obsVars, readerVars, schedVars>>

\* -------------------------------------------------------- worker: startup
\* `return` from worker: the deferred calls run next.
WorkerReturn == pc' = "unwind"

\* select { case <-n.stopCh: return; case <-n.Consensus.Synced(): }
WaitSync ==
    /\ pc = "waitSync"
    /\ \E arm \in {a \in {"stop", "synced"} :
                     (a = "stop" /\ StopRequested) \/ (a = "synced" /\ synced)} :
          IF arm = "stop" THEN WorkerReturn ELSE pc' = "waitDescriptor"
    /\ exitCause' = IF pc' = "unwind" THEN "stop" ELSE exitCause
    /\ UNCHANGED <<startVars, rt, defers, released, stopVars, quitCloses, initCloses, ctxDone,
                   envVars, localVars, lock, ProtectedVars, Height, obsVars, readerVars, schedVars>>

\* rt, err := n.Runtime.ActiveDescriptor(n.ctx): the call blocks until the
\* descriptor is there, it fails, or n.ctx is done; on error return, else
\* n.CurrentDescriptor = rt (no lock taken).  km tells whether the descriptor
\* declares a key manager.
WaitDescriptor(km) ==
    /\ pc = "waitDescriptor"
    /\ \E arm \in {a \in {"ctx", "failed", "ready"} :
                     (a = "ctx" /\ ctxDone) \/ (a # "ctx" /\ activeDescriptor = a)} :
          IF arm = "ready"
          THEN /\ CurrentDescriptor' = [Version |-> 0]
               /\ rt' = [KeyManager |-> km]
               /\ pc' = "kmCheck"
               /\ UNCHANGED exitCause
          ELSE /\ WorkerReturn
               /\ exitCause' = IF arm = "ctx" THEN "ctx" ELSE "error"
               /\ UNCHANGED <<CurrentDescriptor, rt>>

\* The descriptor wait as a step of the worker.
DescriptorStep(km) ==
    /\ WaitDescriptor(km)
    /\ UNCHANGED <<startVars, defers, released, stopVars, quitCloses, initCloses, ctxDone,
                   envVars, localVars, lock, CurrentBlock, CurrentBlockHeight,
                   CurrentConsensusBlock, CurrentEpoch, Height, obsVars, readerVars, schedVars>>

\* if rt.KeyManager != nil { ... }: the last use of rt.
RequiresKeyManager(d) == d.KeyManager = TRUE

KeyManagerCheck ==
    /\ pc = "kmCheck"
    /\ pc' = IF RequiresKeyManager(rt) THEN "kmNew" ELSE "subConsensus"
    /\ rt' = NilRuntime
    /\ UNCHANGED <<startVars, exitCause, defers, released, stopVars, quitCloses, initCloses,
                   ctxDone, envVars, localVars, lock, ProtectedVars, Height, obsVars,
                   readerVars, schedVars>>

\* n.KeyManagerClient, err = keymanagerClient.New(...)
KeyManagerNew(ok) ==
    /\ pc = "kmNew"
    /\ IF ok THEN pc' = "waitKM" ELSE WorkerReturn
    /\ exitCause' = IF ok THEN exitCause ELSE "error"
    /\ UNCHANGED <<startVars, rt, defers, released, stopVars, quitCloses, initCloses, ctxDone,
                   envVars, localVars, lock, ProtectedVars, Height, obsVars, readerVars, schedVars>>

\* select { case <-n.ctx.Done(): return; case <-n.KeyManagerClient.Initialized(): }
WaitKeyManagerOnStop ==
    /\ pc = "waitKM"
    /\ \E arm \in {a \in {"ctx", "km", "stop"} :
                     \/ (a = "ctx" /\ ctxDone) \/ (a = "km" /\ kmReady)
                     \/ (a = "stop" /\ StopRequested)} :
          /\ IF arm = "km" THEN pc' = "subConsensus" ELSE WorkerReturn
          /\ exitCause' = IF arm = "km" THEN exitCause ELSE arm

WaitKeyManager ==
    /\ pc = "waitKM"
    /\ \E arm \in {a \in {"ctx", "km"} :
                     (a = "ctx" /\ ctxDone) \/ (a = "km" /\ kmReady)} :
          /\ IF arm = "ctx" THEN WorkerReturn ELSE pc' = "subConsensus"
          /\ exitCause' = IF arm = "ctx" THEN "ctx" ELSE exitCause

\* The key-manager wait as a step of the worker.
KeyManagerStep ==
    /\ WaitKeyManager
    /\ UNCHANGED <<startVars, rt, defers, released, stopVars, quitCloses, initCloses, ctxDone,
                   envVars, localVars, lock, ProtectedVars, Height, obsVars, readerVars, schedVars>>

\* The seven acquisitions of the worker, in program order, and the deferred
\* release each registers ("" for ProvisionHostedRuntime, which registers none).
StartupSteps == <<"subConsensus", "subBlocks", "subEvents", "provision",
                  "hrtWatch", "hrtStart", "notifierStart">>
StepDefers == <<"consensusBlocksSub.Close", "blocksSub.Close", "eventsSub.Close", "",
                "hrtSub.Close", "hrt.Stop", "hrtNotifier.Stop">>
StepIndex(p) == CHOOSE i \in 1..Len(StartupSteps) : StartupSteps[i] = p
IsStartupStep(p) == \E i \in 1..Len(StartupSteps) : StartupSteps[i] = p

\* What the worker does when an acquisition fails: log and return.
AcquireFailedIgnored(i) ==
    /\ pc' = IF i = Len(StartupSteps) THEN "loop" ELSE StartupSteps[i + 1]
    /\ UNCHANGED defers

AcquireFailed(i) ==
    /\ WorkerReturn
    /\ UNCHANGED defers

\* One acquisition: on error return, else register the release and go on;
\* after the last one `initialized := false` and the merge loop starts.
AcquireResource(ok) ==
    /\ IsStartupStep(pc)
    /\ LET i == StepIndex(pc) IN
         IF ok
         THEN /\ defers' = IF StepDefers[i] = "" THEN defers
                           ELSE Append(defers, StepDefers[i])
              /\ pc' = IF i = Len(StartupSteps) THEN "loop" ELSE StartupSteps[i + 1]
         ELSE AcquireFailed(i)
    /\ startupError' = IF ok THEN startupError ELSE pc
    /\ exitCause' = IF pc' = "unwind" THEN "error" ELSE exitCause
    /\ initialized' = FALSE
    /\ UNCHANGED <<startState, released, rt, stopVars, quitCloses, initCloses, ctxDone,
                   envVars, hookIdx, cur, firstBlockReceived, delivered, lock,
                   ProtectedVars, Height, obsVars, readerVars, schedVars>>

\* The deferred calls in the order they run: last registered first.
RECURSIVE Reverse(_)
Reverse(q) == IF q = <<>> THEN <<>> ELSE Append(Reverse(Tail(q)), Head(q))

RunDeferredInOrder(q) == q
RunDeferred(q) == Reverse(q)

\* The worker has returned: its deferred calls run, the releases first, then
\* cancelCtx and close(quitCh), which were registered first.
Unwind ==
    /\ pc = "unwind"
    /\ released' = RunDeferred(defers)
    /\ defers' = <<>>
    /\ ctxDone' = (ctxDone \/ \E i \in 1..Len(defers) : defers[i] = "cancelCtx")
    /\ quitCloses' = quitCloses + Cardinality({i \in 1..Len(defers) : defers[i] = "closeQuit"})
    /\ pc' = "done"
    /\ UNCHANGED <<startVars, rt, exitCause, stopVars, initCloses, envVars, localVars, lock,
                   ProtectedVars, Height, obsVars, readerVars, schedVars>>

\* ------------------------------------------------------ worker: merge loop
\* case <-n.stopCh: return
LoopStopOnContext ==
    /\ pc = "loop"
    /\ ctxDone
    /\ WorkerReturn
    /\ exitCause' = "ctx"
    /\ UNCHANGED <<startVars, rt, defers, released, stopVars, quitCloses, initCloses, ctxDone,
                   envVars, localVars, lock, ProtectedVars, Height, obsVars, readerVars, schedVars>>

LoopStop ==
    /\ pc = "loop"
    /\ StopRequested
    /\ WorkerReturn
    /\ exitCause' = "stop"
    /\ UNCHANGED <<startVars, rt, defers, released, stopVars, quitCloses, initCloses, ctxDone,
                   envVars, localVars, lock, ProtectedVars, Height, obsVars, readerVars, schedVars>>

\* case blk := <-consensusBlocks: a nil block (h = 0) returns; otherwise
\* n.Height = blk.Height under CrossNode.
ConsensusBlockSettingBlockHeight(h) ==
    /\ pc = "loop"
    /\ IF h = 0
       THEN /\ WorkerReturn
            /\ UNCHANGED <<Height, CurrentBlockHeight>>
       ELSE /\ lock = "free"
            /\ Height' = h
            /\ CurrentBlockHeight' = h
            /\ UNCHANGED pc
    /\ exitCause' = IF h = 0 THEN "nilBlock" ELSE exitCause
    /\ UNCHANGED <<startVars, rt, defers, released, stopVars, quitCloses, initCloses, ctxDone,
                   envVars, localVars, lock, CurrentBlock, CurrentConsensusBlock,
                   CurrentDescriptor, CurrentEpoch, obsVars, readerVars, schedVars>>

ConsensusBlock(h) ==
    /\ pc = "loop"
    /\ IF h = 0
       THEN /\ WorkerReturn
            /\ UNCHANGED Height
       ELSE /\ lock = "free"
            /\ Height' = h
            /\ UNCHANGED pc
    /\ exitCause' = IF h = 0 THEN "nilBlock" ELSE exitCause
    /\ UNCHANGED <<startVars, rt, defers, released, stopVars, quitCloses, initCloses, ctxDone,
                   envVars, localVars, lock, ProtectedVars, obsVars, readerVars, schedVars>>

\* The annotated blocks (block, consensus height) the roothash stream may
\* deliver next; rounds are numbered in order of delivery.
BlockEvents == [Round : {delivered}, HeaderType : AllTypes, Height : Heights]

\* case blk := <-blocks, up to the call of the handler: on the first block
\* close(n.initCh), initialized = true, then wait for the hooks.
ReceiveBlockReclosing(e) ==
    /\ pc = "loop"
    /\ cur' = e
    /\ delivered' = delivered + 1
    /\ initCloses' = initCloses + 1
    /\ initialized' = TRUE
    /\ IF ~initialized
       THEN hookIdx' = 1 /\ pc' = "waitHooks"
       ELSE hookIdx' = 0 /\ pc' = "blkLock"

ReceiveBlock(e) ==
    /\ pc = "loop"
    /\ cur' = e
    /\ delivered' = delivered + 1
    /\ IF ~initialized
       THEN /\ initCloses' = initCloses + 1
            /\ initialized' = TRUE
            /\ hookIdx' = 1
            /\ pc' = "waitHooks"
       ELSE /\ pc' = "blkLock"
            /\ UNCHANGED <<initCloses, initialized, hookIdx>>

\* A block of the free-running stream.
RuntimeBlock(e) ==
    /\ delivered < MaxBlocks
    /\ ReceiveBlock(e)
    /\ UNCHANGED <<startVars, rt, exitCause, defers, released, stopVars, quitCloses, ctxDone, envVars,
                   firstBlockReceived, lock, ProtectedVars, Height, obsVars, readerVars, schedVars>>

\* for _, hooks := range n.hooks { select { case <-hooks.Initialized():
\* case <-n.stopCh: return } }
WaitHooks ==
    /\ pc = "waitHooks"
    /\ \E arm \in {a \in {"stop", "hook"} :
                     (a = "stop" /\ StopRequested) \/ (a = "hook" /\ hookIdx \in hooksReady)} :
          IF arm = "stop"
          THEN WorkerReturn /\ hookIdx' = 0 /\ cur' = NoEvent
          ELSE IF hookIdx = NumHooks
               THEN pc' = "blkLock" /\ hookIdx' = 0 /\ UNCHANGED cur
               ELSE hookIdx' = hookIdx + 1 /\ UNCHANGED <<pc, cur>>
    /\ exitCause' = IF pc' = "unwind" THEN "stop" ELSE exitCause
    /\ UNCHANGED <<startVars, rt, defers, released, stopVars, quitCloses, initCloses, ctxDone,
                   envVars, initialized, firstBlockReceived, delivered, lock,
                   ProtectedVars, Height, obsVars, readerVars, schedVars>>

\* case ev := <-events: handleNewEventLocked under CrossNode (hook callbacks only).
RoothashEvent ==
    /\ pc = "loop"
    /\ lock = "free"
    /\ UNCHANGED vars

\* case ev := <-hrtEventCh: handleRuntimeHostEvent, no lock (hook callbacks only).
RuntimeHostEventEndingLoop ==
    /\ pc = "loop"
    /\ WorkerReturn
    /\ exitCause' = "error"
    /\ UNCHANGED <<startVars, rt, defers, released, stopVars, quitCloses, initCloses, ctxDone,
                   envVars, localVars, lock, ProtectedVars, Height, obsVars, readerVars, schedVars>>

RuntimeHostEvent ==
    /\ pc = "loop"
    /\ UNCHANGED vars

\* ------------------------------------------------- handleNewBlockLocked
\* hooks.<name>(...) for every hook, in registration order.
HookCalls(name) == [i \in 1..NumHooks |-> <<name, i>>]

\* Leaving the handler (any `return` of it, or its end): the deferred
\* CrossNode.Unlock runs and the loop goes back to its select.
HandlerReturnEndsWorker(o) ==
    /\ lock' = "free"
    /\ outcome' = o
    /\ cur' = NoEvent
    /\ firstBlockReceived' = FALSE
    /\ pc' = "unwind"

HandlerReturn(o) ==
    /\ lock' = "free"
    /\ outcome' = o
    /\ cur' = NoEvent
    /\ firstBlockReceived' = FALSE
    /\ pc' = "loop"

\* n.CrossNode.Lock() of the block case.
BlockLock ==
    /\ pc = "blkLock"
    /\ lock = "free"
    /\ lock' = "worker"
    /\ pc' = "blkFetch"
    /\ pre' = Protected
    /\ blockLog' = <<>>
    /\ outcome' = "running"
    /\ UNCHANGED <<startVars, rt, exitCause, defers, released, stopVars, quitCloses, initCloses, ctxDone,
                   envVars, localVars, ProtectedVars, Height, transitions, hookEpochCalls,
                   readerVars, schedVars>>

\* firstBlockReceived := n.CurrentBlock == nil; GetLightBlock; on error return,
\* else set CurrentBlock, CurrentBlockHeight, CurrentConsensusBlock.
BlockFetchCommittingFirst(lightOk) ==
    /\ pc = "blkFetch"
    /\ IF lightOk
       THEN /\ firstBlockReceived' = (CurrentBlock = NilBlock)
            /\ CurrentBlock' = [Round |-> cur.Round, HeaderType |-> cur.HeaderType]
            /\ CurrentBlockHeight' = cur.Height
            /\ CurrentConsensusBlock' = LightBlockAt(cur.Height)
            /\ pc' = "blkRefresh"
            /\ UNCHANGED <<lock, outcome, cur>>
       ELSE /\ HandlerReturn("lightErr")
            /\ CurrentBlock' = [Round |-> cur.Round, HeaderType |-> cur.HeaderType]
            /\ CurrentBlockHeight' = cur.Height
            /\ UNCHANGED CurrentConsensusBlock
    /\ UNCHANGED <<startVars, rt, exitCause, defers, released, stopVars, quitCloses, initCloses, ctxDone,
                   envVars, initialized, hookIdx, delivered, CurrentDescriptor, CurrentEpoch,
                   Height, transitions, hookEpochCalls, blockLog, pre, readerVars, schedVars>>

BlockFetch(lightOk) ==
    /\ pc = "blkFetch"
    /\ IF lightOk
       THEN /\ firstBlockReceived' = (CurrentBlock = NilBlock)
            /\ CurrentBlock' = [Round |-> cur.Round, HeaderType |-> cur.HeaderType]
            /\ CurrentBlockHeight' = cur.Height
            /\ CurrentConsensusBlock' = LightBlockAt(cur.Height)
            /\ pc' = "blkRefresh"
            /\ UNCHANGED <<lock, outcome, cur>>
       ELSE /\ HandlerReturn("lightErr")
            /\ UNCHANGED <<CurrentBlock, CurrentBlockHeight, CurrentConsensusBlock>>
    /\ UNCHANGED <<startVars, rt, exitCause, defers, released, stopVars, quitCloses, initCloses, ctxDone,
                   envVars, initialized, hookIdx, delivered, CurrentDescriptor, CurrentEpoch,
                   Height, transitions, hookEpochCalls, blockLog, pre, readerVars, schedVars>>

\* The answers the registry and beacon lookups may give: desc is "ok" with a
\* descriptor version, "noSuch" (registry.ErrNoSuchRuntime) or "err"; the epoch
\* lookup, made unless desc is "err", succeeds with an epoch or fails, and a
\* failing lookup still returns some epoch value beside its error.
RefreshAnswers ==
    { a \in [desc : {"ok", "noSuch", "err"}, version : {0} \cup DescVersions,
             epochOk : BOOLEAN, epoch : {0} \cup Epochs] :
        /\ (a.version # 0) = (a.desc = "ok")
        /\ (a.desc = "err") => (a.epochOk /\ a.epoch = 0)
        /\ (a.desc # "err" /\ a.epochOk) => a.epoch # 0 }

\* if firstBlockReceived || header.HeaderType == block.EpochTransition:
\* refresh CurrentDescriptor (kept on ErrNoSuchRuntime, return on another
\* error), then `n.CurrentEpoch, err = GetEpoch(...)`, which stores the returned
\* value before err is looked at (return on error).  While the handler goes
\* on, outcome tells whether the descriptor was kept on ErrNoSuchRuntime.
RefreshedDescriptorStoringNil(a, current) ==
    IF a.desc = "err" THEN current
    ELSE IF a.desc = "ok" THEN [Version |-> a.version] ELSE NilDescriptor

RefreshedDescriptor(a, current) ==
    IF a.desc = "ok" THEN [Version |-> a.version] ELSE current

BlockRefresh(a) ==
    /\ pc = "blkRefresh"
    /\ IF firstBlockReceived \/ cur.HeaderType = "EpochTransition"
       THEN /\ CurrentDescriptor' = RefreshedDescriptor(a, CurrentDescriptor)
            /\ IF a.desc = "err"
               THEN HandlerReturn("descErr") /\ UNCHANGED CurrentEpoch
               ELSE /\ CurrentEpoch' = a.epoch
                    /\ IF ~a.epochOk
                       THEN HandlerReturn("epochErr")
                       ELSE /\ pc' = "blkNotify"
                            /\ outcome' = IF a.desc = "noSuch" THEN "keptDescriptor"
                                          ELSE outcome
                            /\ UNCHANGED <<lock, cur, firstBlockReceived>>
       ELSE /\ pc' = "blkNotify"
            /\ UNCHANGED <<CurrentDescriptor, CurrentEpoch, lock, outcome, cur,
                           firstBlockReceived>>
    /\ UNCHANGED <<startVars, rt, exitCause, defers, released, stopVars, quitCloses, initCloses, ctxDone,
                   envVars, initialized, hookIdx, delivered,
                   CurrentBlock, CurrentBlockHeight, CurrentConsensusBlock, Height,
                   transitions, hookEpochCalls, blockLog, pre, readerVars, schedVars>>

\* handleEpochTransitionLocked: Group.EpochTransition (an error of it is only
\* logged), then every hook's HandleEpochTransitionLocked.
\* handleSuspendLocked: Group.Suspend, then every hook's HandleEpochTransitionLocked.
EpochTransitionSteps(forced) ==
    <<[call |-> "Group.EpochTransition", forced |-> forced]>>
SuspendSteps == <<[call |-> "Group.Suspend", forced |-> FALSE]>>
RoundTransitionSteps == <<[call |-> "Group.RoundTransition", forced |-> FALSE]>>

DispatchNeverForced(ty, first) ==
    CASE ty \in {"Normal", "RoundFailed"} -> RoundTransitionSteps
      [] ty = "EpochTransition" -> EpochTransitionSteps(FALSE)
      [] ty = "Suspended" -> SuspendSteps
      [] OTHER -> <<>>

\* switch header.HeaderType: the group call made for a block of type ty,
\* <<>> for a type outside the four (the default case, which returns).
Dispatch(ty, first) ==
    CASE ty \in {"Normal", "RoundFailed"} ->
           IF first THEN EpochTransitionSteps(TRUE) ELSE RoundTransitionSteps
      [] ty = "EpochTransition" -> EpochTransitionSteps(FALSE)
      [] ty = "Suspended" -> SuspendSteps
      [] OTHER -> <<>>

\* Whether the group call is followed by the hooks' epoch-transition callback.
NotifiesEpoch(d) ==
    d # <<>> /\ d[1].call \in {"Group.EpochTransition", "Group.Suspend"}

\* The rest of the handler: early hook callbacks, dispatch on the header
\* type, TxPool.ProcessBlock (an error of it is only logged), new-block hook
\* callbacks.
BlockNotifyHooksBeforePool(poolOk) ==
    /\ pc = "blkNotify"
    /\ LET d == Dispatch(cur.HeaderType, firstBlockReceived)
           early == HookCalls("HandleNewBlockEarlyLocked")
           epochCbs == IF NotifiesEpoch(d) THEN HookCalls("HandleEpochTransitionLocked")
                       ELSE <<>>
           poolCall == <<[call |-> "TxPool.ProcessBlock", RuntimeBlock |-> CurrentBlock,
                          ConsensusBlock |-> CurrentConsensusBlock, Epoch |-> CurrentEpoch,
                          ActiveDescriptor |-> CurrentDescriptor, ok |-> poolOk]>>
       IN IF d = <<>>
          THEN /\ blockLog' = early
               /\ HandlerReturn("invalidType")
               /\ UNCHANGED <<transitions, hookEpochCalls>>
          ELSE /\ blockLog' = early \o <<d[1].call>> \o epochCbs
                                \o HookCalls("HandleNewBlockLocked") \o poolCall
               /\ transitions' = transitions \o d
               /\ hookEpochCalls' = [h \in Hooks |->
                     hookEpochCalls[h] + IF NotifiesEpoch(d) THEN 1 ELSE 0]
               /\ HandlerReturn(IF poolOk THEN "applied" ELSE "appliedPoolErr")
    /\ UNCHANGED <<startVars, rt, exitCause, defers, released, stopVars, quitCloses, initCloses, ctxDone,
                   envVars, initialized, hookIdx, delivered,
                   ProtectedVars, Height, pre, readerVars, schedVars>>

BlockNotify(poolOk) ==
    /\ pc = "blkNotify"
    /\ LET d == Dispatch(cur.HeaderType, firstBlockReceived)
           early == HookCalls("HandleNewBlockEarlyLocked")
           epochCbs == IF NotifiesEpoch(d) THEN HookCalls("HandleEpochTransitionLocked")
                       ELSE <<>>
           poolCall == <<[call |-> "TxPool.ProcessBlock", RuntimeBlock |-> CurrentBlock,
                          ConsensusBlock |-> CurrentConsensusBlock, Epoch |-> CurrentEpoch,
                          ActiveDescriptor |-> CurrentDescriptor, ok |-> poolOk]>>
       IN IF d = <<>>
          THEN /\ blockLog' = early
               /\ HandlerReturn("invalidType")
               /\ UNCHANGED <<transitions, hookEpochCalls>>
          ELSE /\ blockLog' = early \o <<d[1].call>> \o epochCbs \o poolCall
                                \o HookCalls("HandleNewBlockLocked")
               /\ transitions' = transitions \o d
               /\ hookEpochCalls' = [h \in Hooks |->
                     hookEpochCalls[h] + IF NotifiesEpoch(d) THEN 1 ELSE 0]
               /\ HandlerReturn(IF poolOk THEN "applied" ELSE "appliedPoolErr")
    /\ UNCHANGED <<startVars, rt, exitCause, defers, released, stopVars, quitCloses, initCloses, ctxDone,
                   envVars, initialized, hookIdx, delivered,
                   ProtectedVars, Height, pre, readerVars, schedVars>>

\* ---------------------------------------------------------- Node.GetStatus
\* n.CrossNode.Lock()
GetStatusLockUnguarded ==
    /\ readerPc = "idle"
    /\ lock' = "reader"
    /\ readerPc' = "locked"
    /\ UNCHANGED <<startVars, rt, exitCause, pc, defers, released, stopVars, quitCloses, initCloses,
                   ctxDone, envVars, localVars, ProtectedVars, Height, obsVars, schedVars>>

GetStatusLock ==
    /\ readerPc = "idle"
    /\ lock = "free"
    /\ lock' = "reader"
    /\ readerPc' = "locked"
    /\ UNCHANGED <<startVars, rt, exitCause, pc, defers, released, stopVars, quitCloses, initCloses,
                   ctxDone, envVars, localVars, ProtectedVars, Height, obsVars, schedVars>>

\* The status GetStatus fills in: LatestRound and LatestHeight from
\* CurrentBlock and CurrentBlockHeight, zero values when CurrentBlock is nil.
Status ==
    IF CurrentBlock # NilBlock
    THEN [LatestRound |-> CurrentBlock.Round, LatestHeight |-> CurrentBlockHeight]
    ELSE [LatestRound |-> 0, LatestHeight |-> 0]

\* return &status, nil; the deferred Unlock runs.
GetStatusReturn ==
    /\ readerPc = "locked"
    /\ lock' = "free"
    /\ readerPc' = "idle"
    /\ UNCHANGED <<startVars, rt, exitCause, pc, defers, released, stopVars, quitCloses, initCloses,
                   ctxDone, envVars, localVars, ProtectedVars, Height, obsVars, schedVars>>

NodeNext ==
    \/ \E res \in {"ok", "groupErr", "poolErr"} : Start(res)
    \/ \E s \in Stoppers : Stop(s)
    \/ ConsensusSynced
    \/ KeyManagerReady
    \/ \E h \in Hooks : HookReady(h)
    \/ WaitSync
    \/ \E res \in {"ready", "failed"} : DescriptorResolved(res)
    \/ \E km \in BOOLEAN : DescriptorStep(km)
    \/ KeyManagerCheck
    \/ \E ok \in BOOLEAN : KeyManagerNew(ok)
    \/ KeyManagerStep
    \/ \E ok \in BOOLEAN : AcquireResource(ok)
    \/ Unwind
    \/ LoopStop
    \/ \E h \in {0} \cup Heights : ConsensusBlock(h)
    \/ \E e \in BlockEvents : RuntimeBlock(e)
    \/ WaitHooks
    \/ RoothashEvent
    \/ RuntimeHostEvent
    \/ BlockLock
    \/ \E ok \in BOOLEAN : BlockFetch(ok)
    \/ \E a \in RefreshAnswers : BlockRefresh(a)
    \/ \E ok \in BOOLEAN : BlockNotify(ok)
    \/ GetStatusLock
    \/ GetStatusReturn

Spec == Init /\ [][NodeNext]_vars

\* ------------------------------------------------------- startup, fairly
\* The node up to the merge loop with no event delivered.  The worker is a
\* goroutine and so is a Stop call in progress: a step of either that stays
\* possible is taken.  Nothing is assumed of the environment's signals nor of
\* whether Stop is called.
StartupNext ==
    \/ \E res \in {"ok", "groupErr", "poolErr"} : Start(res)
    \/ \E s \in Stoppers : Stop(s)
    \/ ConsensusSynced
    \/ \E res \in {"ready", "failed"} : DescriptorResolved(res)
    \/ KeyManagerReady
    \/ WaitSync
    \/ \E km \in BOOLEAN : DescriptorStep(km)
    \/ KeyManagerCheck
    \/ \E ok \in BOOLEAN : KeyManagerNew(ok)
    \/ KeyManagerStep
    \/ \E ok \in BOOLEAN : AcquireResource(ok)
    \/ Unwind
    \/ LoopStop

StopInProgress ==
    /\ \E s \in Stoppers : stopPc[s] = "inOnce" /\ Stop(s)

WorkerFairness ==
    /\ WF_vars(WaitSync)
    /\ WF_vars(\E km \in BOOLEAN : DescriptorStep(km))
    /\ WF_vars(KeyManagerCheck)
    /\ WF_vars(\E ok \in BOOLEAN : KeyManagerNew(ok))
    /\ WF_vars(KeyManagerStep)
    /\ WF_vars(\E ok \in BOOLEAN : AcquireResource(ok))
    /\ WF_vars(Unwind)
    /\ WF_vars(LoopStop)
    /\ WF_vars(StopInProgress)

StartupSpec == Init /\ [][StartupNext]_vars /\ WorkerFairness

\* ----------------------------------------------------- the loop, fairly
\* The whole node with one consensus height and one answer of each kind to
\* the lookups: the values do not steer the worker, only the kind of answer
\* does.
LoopBlockEvents == {e \in BlockEvents : e.Height = 1}
LoopAnswers == {a \in RefreshAnswers : a.version \in {0, 1} /\ a.epoch \in {0, 1}}

LoopNext ==
    \/ \E res \in {"ok", "groupErr", "poolErr"} : Start(res)
    \/ \E s \in Stoppers : Stop(s)
    \/ ConsensusSynced
    \/ \E res \in {"ready", "failed"} : DescriptorResolved(res)
    \/ KeyManagerReady
    \/ \E h \in Hooks : HookReady(h)
    \/ WaitSync
    \/ \E km \in BOOLEAN : DescriptorStep(km)
    \/ KeyManagerCheck
    \/ \E ok \in BOOLEAN : KeyManagerNew(ok)
    \/ KeyManagerStep
    \/ \E ok \in BOOLEAN : AcquireResource(ok)
    \/ Unwind
    \/ LoopStop
    \/ \E h \in {0, 1} : ConsensusBlock(h)
    \/ \E e \in LoopBlockEvents : RuntimeBlock(e)
    \/ WaitHooks
    \/ RoothashEvent
    \/ RuntimeHostEvent
    \/ BlockLock
    \/ \E ok \in BOOLEAN : BlockFetch(ok)
    \/ \E a \in LoopAnswers : BlockRefresh(a)
    \/ \E ok \in BOOLEAN : BlockNotify(ok)
    \/ GetStatusLock
    \/ GetStatusReturn

\* The select of the merge loop picks among its ready cases at random, so the
\* stop case, ready whenever the worker is back at the select, is picked in
\* the end; a goroutine waiting for CrossNode gets it in the end; the lookups
\* of a handler return and a status query gives the lock back.  Nothing is
\* assumed of the hooks' readiness.
LoopFairness ==
    /\ WorkerFairness
    /\ SF_vars(LoopStop)
    /\ WF_vars(WaitHooks)
    /\ SF_vars(BlockLock)
    /\ WF_vars(\E ok \in BOOLEAN : BlockFetch(ok))
    /\ WF_vars(\E a \in LoopAnswers : BlockRefresh(a))
    /\ WF_vars(\E ok \in BOOLEAN : BlockNotify(ok))
    /\ WF_vars(GetStatusReturn)

LoopSpec == Init /\ [][LoopNext]_vars /\ LoopFairness

\* ------------------------------------------------------ scripted delivery
\* The block stream of the scenario: these header types in this order, every
\* lookup answered successfully.
Scenario == <<"Normal", "Normal", "EpochTransition", "Suspended">>

ScenarioBlock(h) ==
    /\ delivered < Len(Scenario)
    /\ ReceiveBlock([Round |-> delivered, HeaderType |-> Scenario[delivered + 1],
                     Height |-> h])
    /\ UNCHANGED <<startVars, rt, exitCause, defers, released, stopVars, quitCloses, ctxDone, envVars,
                   firstBlockReceived, lock, ProtectedVars, Height, obsVars, readerVars, schedVars>>

SuccessfulAnswers == {a \in RefreshAnswers : a.desc = "ok" /\ a.epochOk}

ScenarioNext ==
    \/ \E res \in {"ok", "groupErr", "poolErr"} : Start(res)
    \/ \E s \in Stoppers : Stop(s)
    \/ ConsensusSynced
    \/ KeyManagerReady
    \/ \E h \in Hooks : HookReady(h)
    \/ WaitSync
    \/ \E res \in {"ready", "failed"} : DescriptorResolved(res)
    \/ \E km \in BOOLEAN : DescriptorStep(km)
    \/ KeyManagerCheck
    \/ \E ok \in BOOLEAN : KeyManagerNew(ok)
    \/ KeyManagerStep
    \/ \E ok \in BOOLEAN : AcquireResource(ok)
    \/ Unwind
    \/ LoopStop
    \/ \E h \in {0} \cup Heights : ConsensusBlock(h)
    \/ \E h \in Heights : ScenarioBlock(h)
    \/ WaitHooks
    \/ RoothashEvent
    \/ RuntimeHostEvent
    \/ BlockLock
    \/ BlockFetch(TRUE)
    \/ \E a \in SuccessfulAnswers : BlockRefresh(a)
    \/ \E ok \in BOOLEAN : BlockNotify(ok)
    \/ GetStatusLock
    \/ GetStatusReturn

ScenarioSpec == Init /\ [][ScenarioNext]_vars

\* --------------------------------------------------- transaction pool
\* Checked transactions: a payload and its declared weight; the hash that
\* identifies a transaction is derived from both.
Transactions == [n : 1..NumTxs, weight : 1..MaxWeight]
Elems(q) == {q[i] : i \in 1..Len(q)}

\* Priority of a transaction, derived from its declared weight.
Priority(tx) == tx.weight

\* The queue with tx entered by priority, after the queued transactions of
\* the same priority (arrival order breaks ties).
Insert(q, tx) ==
    LET k == Cardinality({i \in 1..Len(q) : Priority(q[i]) >= Priority(tx)})
    IN SubSeq(q, 1, k) \o <<tx>> \o SubSeq(q, k + 1, Len(q))

\* txPool.Add: a duplicate condition when the hash is queued, a capacity or
\* weight-limit condition when the pool is full or the weight is over the
\* limit, nil otherwise.
PoolAddError(q, cfg, tx) ==
    IF tx \in Elems(q) THEN "ErrCallAlreadyExists"
    ELSE IF Len(q) >= cfg.MaxPoolSize THEN "ErrFull"
    ELSE IF tx.weight > cfg.WeightLimit THEN "ErrCallTooLarge"
    ELSE "nil"

PoolAdd(q, cfg, tx) ==
    IF PoolAddError(q, cfg, tx) = "nil" THEN Insert(q, tx) ELSE q

\* txPool.RemoveBatch: the queue without the given hashes.
PoolRemoveBatch(q, ids) == SelectSeq(q, LAMBDA t : t \notin ids)

\* The pool's configured minimum: below this many queued transactions a batch
\* is formed only when forced.
MinBatchSize == 2

\* Sum of the declared weights of the transactions of q.
RECURSIVE TotalWeight(_)
TotalWeight(q) == IF q = <<>> THEN 0 ELSE Head(q).weight + TotalWeight(Tail(q))

\* The best batch within the weight limit: the queued transactions in
\* priority order, each taken if the batch with it stays within the limit.
RECURSIVE BestBatch(_, _, _)
BestBatch(q, limit, taken) ==
    IF q = <<>> THEN taken
    ELSE IF TotalWeight(taken) + Head(q).weight <= limit
         THEN BestBatch(Tail(q), limit, Append(taken, Head(q)))
         ELSE BestBatch(Tail(q), limit, taken)

\* txPool.GetBatch: empty when not forced and the queue is below the minimum,
\* the best batch otherwise; the queue is left as it is.
PoolGetBatch(q, cfg, force) ==
    IF ~force /\ Len(q) < MinBatchSize THEN <<>>
    ELSE BestBatch(q, cfg.WeightLimit, <<>>)

\* ---------------------------------------------------- scheduler facade
\* simple.New: the pool is created with poolCfg and the facade keeps
\* maxTxPoolSize.
New(size, limit) ==
    /\ maxTxPoolSize = 0
    /\ maxTxPoolSize' = size
    /\ poolCfg' = [MaxPoolSize |-> size, WeightLimit |-> limit]
    /\ txQueue' = <<>>
    /\ lastCall' = NoCall
    /\ UNCHANGED nodeVars

\* What QueueTx returns for the error of txPool.Add: nil for nil and for
\* ErrCallAlreadyExists, the error itself otherwise.
QueueTxResultKeepingDuplicate(err) == err

QueueTxResultSwallowing(err) == "nil"

QueueTxResult(err) ==
    CASE err = "nil" -> "nil"
      [] err = "ErrCallAlreadyExists" -> "nil"
      [] OTHER -> err

QueueTx(tx) ==
    /\ maxTxPoolSize > 0
    /\ txQueue' = PoolAdd(txQueue, poolCfg, tx)
    /\ lastCall' = [NoCall EXCEPT !.op = "QueueTx", !.tx = tx,
                        !.result = QueueTxResult(PoolAddError(txQueue, poolCfg, tx)),
                        !.before = txQueue, !.after = txQueue', !.cfg = poolCfg]
    /\ UNCHANGED <<nodeVars, maxTxPoolSize, poolCfg>>

\* RemoveTxBatch passes the hashes on to txPool.RemoveBatch.
RemoveTxBatchAllOrNothing(ids) ==
    /\ maxTxPoolSize > 0
    /\ txQueue' = IF ids \subseteq Elems(txQueue) THEN PoolRemoveBatch(txQueue, ids)
                  ELSE txQueue
    /\ lastCall' = [NoCall EXCEPT !.op = "RemoveTxBatch", !.ids = ids, !.before = txQueue,
                                  !.after = txQueue', !.cfg = poolCfg]
    /\ UNCHANGED <<nodeVars, maxTxPoolSize, poolCfg>>

RemoveTxBatch(ids) ==
    /\ maxTxPoolSize > 0
    /\ txQueue' = PoolRemoveBatch(txQueue, ids)
    /\ lastCall' = [NoCall EXCEPT !.op = "RemoveTxBatch", !.ids = ids, !.before = txQueue,
                                  !.after = txQueue', !.cfg = poolCfg]
    /\ UNCHANGED <<nodeVars, maxTxPoolSize, poolCfg>>

\* GetBatch passes force on to txPool.GetBatch and returns its batch.
GetBatchNeverForced(force) ==
    /\ maxTxPoolSize > 0
    /\ lastCall' = [NoCall EXCEPT !.op = "GetBatch", !.force = force,
                                  !.batch = PoolGetBatch(txQueue, poolCfg, FALSE),
                                  !.before = txQueue, !.after = txQueue, !.cfg = poolCfg]
    /\ UNCHANGED <<nodeVars, maxTxPoolSize, poolCfg, txQueue>>

GetBatch(force) ==
    /\ maxTxPoolSize > 0
    /\ lastCall' = [NoCall EXCEPT !.op = "GetBatch", !.force = force,
                                  !.batch = PoolGetBatch(txQueue, poolCfg, force),
                                  !.before = txQueue, !.after = txQueue, !.cfg = poolCfg]
    /\ UNCHANGED <<nodeVars, maxTxPoolSize, poolCfg, txQueue>>

\* Clear passes on to txPool.Clear.
Clear ==
    /\ maxTxPoolSize > 0
    /\ txQueue' = <<>>
    /\ lastCall' = [NoCall EXCEPT !.op = "Clear", !.before = txQueue, !.cfg = poolCfg]
    /\ UNCHANGED <<nodeVars, maxTxPoolSize, poolCfg>>

\* UpdateParameters: txPool.UpdateConfig with the facade's maxTxPoolSize and
\* the new weight limits; the pool either keeps the queued transactions that
\* are over the new limit or evicts them.
UpdateParametersDroppingSize(limit, evict) ==
    /\ maxTxPoolSize > 0
    /\ poolCfg' = [MaxPoolSize |-> 0, WeightLimit |-> limit]
    /\ txQueue' = IF evict THEN SelectSeq(txQueue, LAMBDA t : t.weight <= limit)
                  ELSE txQueue
    /\ lastCall' = [NoCall EXCEPT !.op = "UpdateParameters", !.before = txQueue,
                                  !.after = txQueue', !.cfg = poolCfg']
    /\ UNCHANGED <<nodeVars, maxTxPoolSize>>

UpdateParameters(limit, evict) ==
    /\ maxTxPoolSize > 0
    /\ poolCfg' = [MaxPoolSize |-> maxTxPoolSize, WeightLimit |-> limit]
    /\ txQueue' = IF evict THEN SelectSeq(txQueue, LAMBDA t : t.weight <= limit)
                  ELSE txQueue
    /\ lastCall' = [NoCall EXCEPT !.op = "UpdateParameters", !.before = txQueue,
                                  !.after = txQueue', !.cfg = poolCfg']
    /\ UNCHANGED <<nodeVars, maxTxPoolSize>>

SchedNext ==
    \/ \E size \in 1..MaxPoolSizeChoice, limit \in 1..MaxWeight : New(size, limit)
    \/ \E tx \in Transactions : QueueTx(tx)
    \/ \E ids \in SUBSET Transactions : RemoveTxBatch(ids)
    \/ \E force \in BOOLEAN : GetBatch(force)
    \/ Clear
    \/ \E limit \in 1..MaxWeight, evict \in BOOLEAN : UpdateParameters(limit, evict)

SchedSpec == Init /\ [][SchedNext]_vars

\* ----------------------------------------------------------------- claims
\* Outcomes with which a block handler has made every update of its block.
AppliedOutcomes == {"applied", "appliedPoolErr"}
\* Outcomes of a handler that met a transient per-block error.
TransientErrors == {"lightErr", "descErr", "epochErr", "appliedPoolErr"}
\* Worker positions of the steady-state merge loop and its handlers.
LoopPcs == {"loop", "waitHooks", "blkLock", "blkFetch", "blkRefresh", "blkNotify"}
CountCalls(name) ==
    Cardinality({i \in 1..Len(transitions) : transitions[i].call = name})

\* C1: a reader holding CrossNode sees the five protected fields either all as
\* they were before the last block handler ran or all as updated for that
\* block, whatever the lookups of the block answered.
C1_ReaderSeesAllOrNothing ==
    (readerPc = "locked" /\ outcome # "none") =>
        \/ Protected = pre
        \/ outcome \in AppliedOutcomes \cup {"invalidType"}

\* C2: no block is handled as a round transition before the epoch transition
\* of the first delivered block has happened.
C2_EpochTransitionBeforeRound ==
    \A i \in 1..Len(transitions) :
        transitions[i].call = "Group.RoundTransition" =>
            \E j \in 1..(i - 1) : transitions[j].call = "Group.EpochTransition"

\* C3: once the four blocks of the scenario have been delivered and handled,
\* the group calls made are, in order, a forced epoch transition, a round
\* transition, an explicit epoch transition and a suspend; every hook's
\* epoch-transition callback has run three times and Group.RoundTransition once.
ScenarioTransitions ==
    <<[call |-> "Group.EpochTransition", forced |-> TRUE],
      [call |-> "Group.RoundTransition", forced |-> FALSE],
      [call |-> "Group.EpochTransition", forced |-> FALSE],
      [call |-> "Group.Suspend", forced |-> FALSE]>>

C3_ScenarioSequence ==
    (delivered = Len(Scenario) /\ cur = NoEvent) =>
        /\ transitions = ScenarioTransitions
        /\ \A h \in Hooks : hookEpochCalls[h] = 3
        /\ CountCalls("Group.RoundTransition") = 1

C3_Witness ==
    /\ delivered = Len(Scenario)
    /\ cur = NoEvent
    /\ outcome \in AppliedOutcomes
    /\ CurrentBlock.HeaderType = "Suspended"

\* C4: QueueTx of a transaction that is already queued returns nil and leaves
\* the pool as it was.
C4_DuplicateIsSuccess ==
    (lastCall.op = "QueueTx" /\ lastCall.tx \in Elems(lastCall.before)) =>
        /\ lastCall.result = "nil"
        /\ lastCall.after = lastCall.before

C4_Witness ==
    /\ lastCall.op = "QueueTx"
    /\ lastCall.tx \in Elems(lastCall.before)
    /\ Len(txQueue) = 1

\* C5: the pool never holds more than MaxPoolSize transactions, and QueueTx of
\* a new transaction on a full pool, or of one over the weight limit, returns
\* an error and leaves the pool as it was.
C5_CapacityRejected ==
    /\ Len(txQueue) <= maxTxPoolSize
    /\ (/\ lastCall.op = "QueueTx"
        /\ lastCall.tx \notin Elems(lastCall.before)
        /\ \/ Len(lastCall.before) >= lastCall.cfg.MaxPoolSize
           \/ lastCall.tx.weight > lastCall.cfg.WeightLimit) =>
            /\ lastCall.result # "nil"
            /\ lastCall.after = lastCall.before

C5_Witness ==
    /\ maxTxPoolSize = 2
    /\ lastCall.op = "QueueTx"
    /\ lastCall.result = "ErrFull"
    /\ Len(lastCall.before) = 2
    /\ Len(txQueue) = 2

\* C6: however many Stop calls are made, stopCh is closed once and
\* TxPool.Stop is called once; quitCh is closed once, and only by the worker
\* after it has returned.
C6_StopOnce ==
    /\ stopCloses <= 1
    /\ poolStops <= 1
    /\ quitCloses <= 1
    /\ (\E s \in Stoppers : stopPc[s] = "returned") => (stopCloses = 1 /\ poolStops = 1)
    /\ quitCloses = 1 => pc = "done"

C6_Witness ==
    /\ \A s \in Stoppers : stopPc[s] = "returned"
    /\ quitCloses = 1

\* C7 as stated: when initCh is closed every hook's Initialized has fired,
\* unless the stop signal preempted the wait.
C7_InitAfterHooks ==
    initCloses > 0 => (hooksReady = Hooks \/ StopRequested)

\* C7 as amended: initCh is closed exactly once, when the first runtime block
\* is received and before the wait for the hooks; it is the handler of that
\* block that runs only after every hook's Initialized has fired.
C7_InitOnceThenHooks ==
    /\ initCloses <= 1
    /\ (initCloses = 1) = (delivered >= 1)
    /\ pc \in {"blkLock", "blkFetch", "blkRefresh", "blkNotify"} => hooksReady = Hooks
    /\ outcome # "none" => hooksReady = Hooks

C7_Witness ==
    /\ initCloses = 1
    /\ pc = "waitHooks"
    /\ hooksReady = {}

\* C8 as stated: after any fatal startup error, of Start or of the worker,
\* no event is handled and quitCh is closed once the node has come to rest.
FatalStartupError == startState \in {"groupErr", "poolErr"} \/ startupError # "none"
WorkerAtRest == (pc = "idle" /\ startState # "new") \/ pc = "done"

C8_FatalErrorClosesQuit ==
    FatalStartupError =>
        /\ pc \notin LoopPcs
        /\ WorkerAtRest => quitCloses = 1

\* C8 as amended: a fatal error inside the worker makes it return without
\* handling any event, and quitCh is closed when its deferred calls have run;
\* a failure of Group.Start or TxPool.Start makes Start return the error with
\* no worker spawned, so no event is handled and quitCh is never closed.
C8_FatalErrorStopsStartup ==
    /\ startupError # "none" =>
          /\ pc \in {"unwind", "done"}
          /\ delivered = 0 /\ Height = 0 /\ initCloses = 0
          /\ pc = "done" => quitCloses = 1
    /\ startState \in {"groupErr", "poolErr"} =>
          /\ pc = "idle"
          /\ delivered = 0 /\ Height = 0
          /\ quitCloses = 0

C8_Witness ==
    /\ startupError = "notifierStart"
    /\ pc = "done"
    /\ quitCloses = 1

\* C9: a handler that meets a transient per-block error returns to the
\* select of the merge loop with quitCh open, and there every event source
\* can deliver its next event.
C9_TransientErrorKeepsLoop ==
    [][(lock = "worker" /\ outcome' \in TransientErrors) =>
          /\ pc' = "loop"
          /\ quitCloses' = 0
          /\ defers' = defers]_vars

C9_Witness ==
    /\ outcome \in TransientErrors
    /\ pc = "blkLock"
    /\ quitCloses = 0

\* C10: handling a block whose header type is none of the four changes no
\* protected field and makes no hook callback and no pool update.
C10_InvalidTypeChangesNothing ==
    outcome = "invalidType" => (Protected = pre /\ blockLog = <<>>)

\* C11: when Stop has been called and the worker is in the wait for consensus
\* sync or in the wait for the active descriptor, then either the awaited
\* condition occurs and the worker goes on, or the worker returns and quitCh
\* is closed.
StopCancelledWaits == {"waitSync", "waitDescriptor"}

C11_StopEndsStartupWaits ==
    (StopRequested /\ pc \in StopCancelledWaits) ~>
        (quitCloses = 1 \/ pc \notin StopCancelledWaits \cup {"unwind"})

\* C12: the steps of GetStatus change none of the protected fields, Height
\* included, and none of stopCh, quitCh and initCh; while GetStatus reads, the
\* reader holds CrossNode; and while no block has been applied the status it
\* fills in has latest round 0 and latest height 0.
NoBlockApplied == transitions = <<>>
ZeroStatus == [LatestRound |-> 0, LatestHeight |-> 0]

C12_GetStatusReadsOnly ==
    [][/\ readerPc' # readerPc =>
             UNCHANGED <<ProtectedVars, Height, stopCloses, quitCloses, initCloses>>
       /\ readerPc' = "locked" =>
             /\ lock' = "reader"
             /\ NoBlockApplied' => Status' = ZeroStatus]_vars

\* C13: GetBatch returns what the pool returns for the same force flag; forced,
\* on a non-empty queue whose total weight is within the limit, that is every
\* queued transaction in queue order; not forced, on a queue below the
\* minimum, it is the empty batch; and the queue is as it was.
C13_GetBatchPassesThrough ==
    lastCall.op = "GetBatch" =>
        /\ lastCall.batch = PoolGetBatch(lastCall.before, lastCall.cfg, lastCall.force)
        /\ (/\ lastCall.force
            /\ lastCall.before # <<>>
            /\ TotalWeight(lastCall.before) <= lastCall.cfg.WeightLimit) =>
                lastCall.batch = lastCall.before
        /\ (~lastCall.force /\ Len(lastCall.before) < MinBatchSize) =>
                lastCall.batch = <<>>
        /\ lastCall.after = lastCall.before
        /\ txQueue = lastCall.before

C13_Witness ==
    /\ lastCall.op = "GetBatch"
    /\ lastCall.force
    /\ Len(lastCall.before) = 1
    /\ lastCall.batch = lastCall.before

\* C14: RemoveTxBatch leaves exactly the queued transactions whose identifiers
\* were not given, in their order; given only identifiers that are not queued
\* it leaves the pool as it was; and removing the same identifiers again from
\* the result changes nothing.
C14_RemoveIdempotent ==
    lastCall.op = "RemoveTxBatch" =>
        /\ lastCall.result = "nil"
        /\ lastCall.after = SelectSeq(lastCall.before, LAMBDA t : t \notin lastCall.ids)
        /\ Elems(lastCall.after) = Elems(lastCall.before) \ lastCall.ids
        /\ (lastCall.ids \cap Elems(lastCall.before) = {}) =>
               (lastCall.after = lastCall.before /\ Len(txQueue) = Len(lastCall.before))
        /\ PoolRemoveBatch(lastCall.after, lastCall.ids) = lastCall.after
        /\ txQueue = lastCall.after

C14_Witness ==
    /\ lastCall.op = "RemoveTxBatch"
    /\ Len(lastCall.before) = 2
    /\ Len(lastCall.after) = 1
    /\ Cardinality(lastCall.ids) = 2

\* C15: a handler whose light-block fetch fails returns with the five
\* protected fields as they were before it, with no hook callback and no pool
\* update made, and with no group transition and no epoch callback counted;
\* and a handler that gets past the fetch treats its block as the first one
\* exactly when CurrentBlock was nil before it, so after a first block lost
\* to a fetch failure the next block is the first.
C15_LightBlockFailureDiscards ==
    [][/\ (lock = "worker" /\ outcome' = "lightErr") =>
             /\ Protected' = pre'
             /\ blockLog' = <<>>
             /\ UNCHANGED <<transitions, hookEpochCalls>>
       /\ pc' \in {"blkRefresh", "blkNotify"} =>
             firstBlockReceived' = (pre'.block = NilBlock)]_vars

C15_Witness ==
    /\ pc = "blkRefresh"
    /\ cur.Round = 1
    /\ firstBlockReceived
    /\ CurrentBlockHeight = cur.Height

\* C16: when the descriptor lookup of a first or EpochTransition block answers
\* "no such runtime", CurrentDescriptor stays as it was, the epoch is
\* refreshed and the handler goes on: for a block of one of the four types
\* the early callbacks, the dispatch, the pool update and the new-block
\* callbacks are made.  A handler that returns on another descriptor error
\* or on an epoch error has made no hook callback, no group call and no pool
\* update.
C16_NoSuchRuntimeKeepsDescriptor ==
    [][/\ (pc = "blkRefresh" /\ outcome' = "keptDescriptor") =>
             /\ firstBlockReceived \/ cur.HeaderType = "EpochTransition"
             /\ CurrentDescriptor' = pre.descriptor
             /\ CurrentEpoch' \in Epochs
             /\ pc' = "blkNotify"
       /\ (outcome = "keptDescriptor" /\ pc' # "blkNotify" /\ cur.HeaderType \in HeaderTypes) =>
             /\ outcome' \in AppliedOutcomes
             /\ Len(blockLog') >= 2 * NumHooks + 2
             /\ Len(transitions') = Len(transitions) + 1
             /\ CurrentDescriptor' = pre.descriptor
       /\ (lock = "worker" /\ outcome' \in {"descErr", "epochErr"}) =>
             /\ blockLog' = <<>>
             /\ UNCHANGED <<transitions, hookEpochCalls>>]_vars

\* The registry answers with versions from 1 on, so version 0, the descriptor
\* of startup, is still there after an applied block only if it was kept.
C16_Witness ==
    /\ outcome = "applied"
    /\ CurrentBlock.HeaderType = "Suspended"
    /\ CurrentBlock.Round = 0
    /\ CurrentDescriptor = [Version |-> 0]
    /\ CurrentEpoch \in Epochs

\* C17: the handler of an applied block made, in this order, every hook's
\* early callback, one group call, every hook's epoch callback when that
\* call was an epoch transition or a suspend, TxPool.ProcessBlock with the
\* committed block, consensus block, epoch and descriptor, and every hook's
\* new-block callback, the hooks taken in registration order each time; the
\* protected fields were committed before the first callback and CrossNode
\* was held throughout.
GroupCalls == {"Group.EpochTransition", "Group.RoundTransition", "Group.Suspend"}

InRegistrationOrder(name) == [i \in 1..NumHooks |-> <<name, i>>]

AppliedSteps(call) ==
    InRegistrationOrder("HandleNewBlockEarlyLocked")
    \o <<call>>
    \o (IF call = "Group.RoundTransition" THEN <<>>
        ELSE InRegistrationOrder("HandleEpochTransitionLocked"))
    \o <<[call |-> "TxPool.ProcessBlock", RuntimeBlock |-> CurrentBlock,
          ConsensusBlock |-> CurrentConsensusBlock, Epoch |-> CurrentEpoch,
          ActiveDescriptor |-> CurrentDescriptor,
          ok |-> (outcome = "applied")]>>
    \o InRegistrationOrder("HandleNewBlockLocked")

C17_HandlerStepOrder ==
    [][/\ outcome' \in AppliedOutcomes =>
             \E call \in GroupCalls : blockLog' = AppliedSteps(call)'
       /\ pc = "blkNotify" => (lock = "worker" /\ UNCHANGED ProtectedVars)
       /\ pc' \in {"blkFetch", "blkRefresh", "blkNotify"} => lock' = "worker"]_vars

C17_Witness ==
    /\ outcome = "appliedPoolErr"
    /\ CurrentBlock.HeaderType = "Suspended"
    /\ Len(blockLog) = 3 * NumHooks + 2

\* C18: a returning worker has registered a release for each resource it
\* acquired before the point it returns from and for no other; when it is
\* done it has run them last acquired first (notifier stop, hosted runtime
\* stop, hosted-runtime event subscription, roothash event subscription,
\* roothash block subscription, consensus block subscription), then cancelled
\* the context, then closed quitCh.
FullRelease == <<"hrtNotifier.Stop", "hrt.Stop", "hrtSub.Close", "eventsSub.Close",
                 "blocksSub.Close", "consensusBlocksSub.Close">>

\* How many releasable resources the worker holds at position p.
AcquiredAt(p) ==
    CASE p \in LoopPcs -> 6
      [] p = "notifierStart" -> 5
      [] p = "hrtStart" -> 4
      [] p \in {"hrtWatch", "provision"} -> 3
      [] p = "subEvents" -> 2
      [] p = "subBlocks" -> 1
      [] OTHER -> 0

LastN(q, k) == SubSeq(q, Len(q) - k + 1, Len(q))

C18_ReleaseInReverseOrder ==
    [][/\ (pc # "unwind" /\ pc' = "unwind") =>
             Len(defers') = 2 + AcquiredAt(pc)
       /\ (pc = "unwind" /\ pc' = "done") =>
             /\ released' = LastN(FullRelease, Len(defers) - 2) \o <<"cancelCtx", "closeQuit">>
             /\ ctxDone'
             /\ quitCloses' = 1]_vars

C18_Witness ==
    /\ pc = "done"
    /\ startupError = "hrtStart"
    /\ released = <<"hrtSub.Close", "eventsSub.Close", "blocksSub.Close",
                    "consensusBlocksSub.Close", "cancelCtx", "closeQuit">>

\* C19 as stated: the worker returns from the merge loop or from one of its
\* handlers only when the stop signal is set.
C19_RunningUntilStop ==
    [][(pc \in LoopPcs /\ pc' = "unwind") => StopRequested]_vars

\* C19 as amended: the worker returns from the merge loop only on the stop
\* signal or on a nil block from the consensus block stream; no runtime
\* block, roothash event, hosted-runtime event or non-nil consensus block
\* makes it return.
C19_RunningUntilStopOrNilBlock ==
    [][(pc \in LoopPcs /\ pc' = "unwind") =>
          \/ StopRequested /\ exitCause' = "stop"
          \/ pc = "loop" /\ exitCause' = "nilBlock" /\ Height' = Height]_vars

C19_Witness ==
    /\ pc = "done"
    /\ exitCause = "nilBlock"
    /\ stopCloses = 0
    /\ delivered = MaxBlocks
    /\ Height = MaxHeight

\* C20: the worker comes to the key-manager wait only through the check of a
\* descriptor that declares a key manager; it leaves the wait only with the
\* key-manager client ready, going on, or with its context done, returning;
\* and while it is in the wait quitCh is open, whether or not Stop was called.
C20_KeyManagerWaitIgnoresStop ==
    [][/\ (pc # "kmNew" /\ pc' = "kmNew") => (pc = "kmCheck" /\ rt.KeyManager = TRUE)
       /\ (pc # "waitKM" /\ pc' = "waitKM") => pc = "kmNew"
       /\ (pc = "waitKM" /\ pc' # "waitKM") =>
             \/ kmReady /\ pc' = "subConsensus"
             \/ ctxDone /\ pc' = "unwind" /\ exitCause' = "ctx"
       /\ pc' = "waitKM" => quitCloses' = 0]_vars

C20_Witness ==
    /\ pc = "waitKM"
    /\ \A s \in Stoppers : stopPc[s] = "returned"
    /\ ~kmReady
    /\ ~ctxDone
    /\ quitCloses = 0

\* C21: from the receipt of a runtime block to the return of its handler the
\* worker takes no other event and does not look at the stop signal; the
\* handler's steps are taken with CrossNode held by the worker and with no
\* status query holding it; in the merge loop the five protected fields
\* change only with CrossNode held by the worker, and Height changes only in
\* the select, in a step that takes CrossNode while it is free and gives it
\* back; a status query reads only while it holds CrossNode.
HandlerPcs == {"blkFetch", "blkRefresh", "blkNotify"}

C21_HandlersSerialized ==
    [][/\ pc \in HandlerPcs \cup {"blkLock"} =>
             /\ pc' \in HandlerPcs \cup {"blkLock", "loop"}
             /\ delivered' = delivered
             /\ Height' = Height
       /\ pc \in HandlerPcs => (lock = "worker" /\ readerPc = "idle")
       /\ readerPc' = "locked" => (lock' = "reader" /\ pc' \notin HandlerPcs)
       /\ (pc \in LoopPcs /\ ProtectedVars' # ProtectedVars) =>
             (lock = "worker" /\ pc \in HandlerPcs)
       /\ Height' # Height =>
             (pc = "loop" /\ lock = "free" /\ lock' = "free" /\ readerPc = "idle")]_vars

C21_Witness ==
    /\ pc = "blkLock"
    /\ readerPc = "locked"
    /\ lock = "reader"
    /\ cur.Round = 1

\* C22: when the stop signal is set while the worker is in the merge loop, at
\* the select, waiting for the hooks or in a block handler, the worker
\* returns in the end and quitCh is closed.
C22_StopEndsLoop ==
    (StopRequested /\ pc \in LoopPcs) ~> (pc = "done" /\ quitCloses = 1)

\* Stop has returned to both callers while the worker is still in a handler.
C22_Witness ==
    /\ \A s \in Stoppers : stopPc[s] = "returned"
    /\ pc = "blkRefresh"
    /\ quitCloses = 0

\* C23: a step that changes Height is a step of the select that sets it to a
\* height of the consensus block stream and changes nothing else; and no
\* step that leaves the worker at the select (a consensus block, a roothash
\* event, a hosted-runtime event) changes any of the five fields of the
\* block handler, makes a group call, a block or epoch callback or a pool
\* update.
C23_ConsensusBlockSetsHeightOnly ==
    [][/\ Height' # Height =>
             /\ pc = "loop" /\ pc' = "loop"
             /\ lock = "free"
             /\ Height' \in Heights
             /\ UNCHANGED <<ProtectedVars, obsVars, localVars, lock, quitCloses, initCloses>>
       /\ (pc = "loop" /\ pc' = "loop") =>
             UNCHANGED <<ProtectedVars, transitions, hookEpochCalls, blockLog>>]_vars

C23_Witness ==
    /\ pc = "loop"
    /\ outcome = "applied"
    /\ CurrentBlockHeight = 1
    /\ CurrentConsensusBlock = LightBlockAt(1)
    /\ Height = MaxHeight

\* C24: the facade's maxTxPoolSize stays what New set it to and the pool's
\* MaxPoolSize is always that value, whatever UpdateParameters calls were
\* made; an UpdateParameters call sets the weight limit it was given and
\* leaves the queue a subsequence of what it was: nothing added, nothing
\* reordered.
IsSubsequenceOf(q, r) ==
    /\ Elems(q) \subseteq Elems(r)
    /\ q = SelectSeq(r, LAMBDA t : t \in Elems(q))

C24_UpdateKeepsMaxPoolSize ==
    [][/\ maxTxPoolSize # 0 => maxTxPoolSize' = maxTxPoolSize
       /\ maxTxPoolSize' # 0 => poolCfg'.MaxPoolSize = maxTxPoolSize'
       /\ lastCall'.op = "UpdateParameters" =>
             /\ lastCall'.cfg = poolCfg'
             /\ lastCall'.cfg.MaxPoolSize = maxTxPoolSize'
             /\ lastCall'.after = txQueue'
             /\ IsSubsequenceOf(lastCall'.after, lastCall'.before)]_vars

C24_Witness ==
    /\ lastCall.op = "UpdateParameters"
    /\ maxTxPoolSize = 2
    /\ poolCfg = [MaxPoolSize |-> 2, WeightLimit |-> 1]
    /\ Len(lastCall.before) = 2
    /\ Len(txQueue) = 1
====
